---- MODULE Spec2Model ----
(***************************************************************************)
(* TritiumDB: the expression -> result store (Database) with its two       *)
(* dependency indices, the on-demand evaluator, derivative expressions and *)
(* cascading predicates, modelled from src/src/database.ts.                *)
(*                                                                         *)
(* A Database method is a synchronous call, so each public method is one   *)
(* action; the nested calls it makes (predicates, spies, setters) are the  *)
(* recursive operators below.  A thrown JavaScript exception unwinds every *)
(* frame without running the statements after the call, so an operator     *)
(* returns the mutated object together with a `thrown' flag.               *)
(***************************************************************************)
EXTENDS Integers, Sequences, FiniteSets, TLC

-----------------------------------------------------------------------------
(* Values.  Everything is an integer so that any two values compare.       *)

\* ImmMap.has(expr) is false: the expression has no cache entry
Absent == 0 - 1
\* the JavaScript value undefined (a cache entry may hold it)
Undef == 0
\* the value thrown by a user predicate
ErrBoom == 900
\* Error("getDerivativeId/setDerivative can only be called during expression computation")
ErrDerivativeMisuse == 901
\* AsyncCallStatus
Executing == 11
Complete == 12
NotStarted == 13
\* AsyncCallIncompleteError
ErrAsyncCallIncomplete == 903
\* the JavaScript values false and true
False == 20
True == 21
\* a DerivativeId is a value apart from the numbers and errors above
DerivativeIdBase == 1000
\* currentDeepestComputingExpr === null
NoExpr == "null"

-----------------------------------------------------------------------------
(* Bounds of the model.                                                    *)

\* values written through with(): 1..MaxWritten
MaxWritten == 2
\* the writes of the calling program between two flushes
MaxPendingWrites == 2
\* the futures the asynchronous function returns
MaxFutures == 2

WrittenValues == 1..MaxWritten

-----------------------------------------------------------------------------
(* The expressions of the model and the predicates at their heads.         *)

Exprs ==
  {"base1", "base2", "f1", "f3", "rec", "thrower", "creator", "d1", "d2",
   "PARENT", "CHILD1", "CHILD2", "GRAND", "STATUS", "RESULT", "PROMISE",
   "asyncCallStatus", "inner", "outer", "ready", "viewer", "GUARD", "NOTE",
   "ping", "pong", "maker", "d3"}

\* typeof pred === "function" / pred instanceof CascadingPredicate / anything else
PredKind ==
  [e \in Exprs |->
     CASE e \in {"f1", "f3", "rec", "thrower", "creator",
                 "asyncCallStatus", "inner", "outer", "ready", "viewer",
                 "ping", "pong", "maker"} -> "function"
       [] e \in {"PARENT", "CHILD1", "CHILD2", "GUARD"} -> "cascade"
       [] OTHER -> "tag"]

\* the creatingExpr of every DerivativeId term of an expression, in term order
DerivativeCreators ==
  [e \in Exprs |-> IF e \in {"d1", "d2"} THEN <<"creator">>
                   ELSE IF e = "d3" THEN <<"maker">> ELSE <<>>]

\* ['deriv', derivativeId, baseValue]: the derivative expression keyed by a value
DerivFor(v) == IF v = 2 THEN "d2" ELSE "d1"

\* [CHILD, parentId]: the consequence expression keyed by the written value
ChildFor(v) == IF v = 2 THEN "CHILD2" ELSE "CHILD1"

\* The body of each predicate (for a CascadingPredicate: of its setter), as
\* the sequence of Database calls it makes.  The value a predicate returns
\* is RetBase plus the sum of the values it spied.
Body ==
  [e \in Exprs |->
     CASE e = "f1" -> << [op |-> "spy", x |-> "base1"] >>
       [] e = "f3" -> << [op |-> "spy", x |-> "f1"], [op |-> "spy", x |-> "thrower"] >>
       [] e = "rec" -> << [op |-> "spy", x |-> "rec"] >>
       [] e = "thrower" -> << [op |-> "spy", x |-> "base1"], [op |-> "throwIf", vs |-> {2}] >>
       [] e = "creator" -> << [op |-> "spy", x |-> "base2"],
                              [op |-> "setDerivative", x |-> "deriv", k |-> 70],
                              [op |-> "spy", x |-> "deriv"] >>
       [] e = "PARENT" -> << [op |-> "setDerivative", x |-> "child", k |-> 5] >>
       [] e \in {"CHILD1", "CHILD2"} -> << [op |-> "setDerivative", x |-> "GRAND", k |-> 7] >>
       \* [asyncCallStatus, fn, arg]
       [] e = "asyncCallStatus" -> << [op |-> "asyncCallStatus"] >>
       \* inner = db => db.spyAsyncEffectResult([fn, arg])
       [] e = "inner" -> << [op |-> "spyAsyncEffectResult"] >>
       \* outer spies a written expression, throws on one of its values and
       \* spies [inner]
       [] e = "outer" -> << [op |-> "spy", x |-> "base1"], [op |-> "throwIf", vs |-> {2}],
                            [op |-> "spy", x |-> "inner"] >>
       \* [resultIsReady, outer]
       [] e = "ready" -> << [op |-> "resultIsReady", x |-> "outer"] >>
       \* GUARD = new CascadingPredicate((db, expr, result) => {
       \*   db.setDerivative([NOTE], ...); if (result === 2) throw ... })
       [] e = "GUARD" -> << [op |-> "setDerivative", x |-> "NOTE", k |-> 8],
                            [op |-> "throwIf", vs |-> {2}] >>
       \* two predicates that spy each other
       [] e = "ping" -> << [op |-> "spy", x |-> "base1"], [op |-> "spy", x |-> "pong"] >>
       [] e = "pong" -> << [op |-> "spy", x |-> "ping"] >>
       \* maker = db => { id = db.getDerivativeId('k');
       \*   db.setDerivative(['made', id], 40 + db.spyResult(['made', id])) }
       [] e = "maker" -> << [op |-> "spy", x |-> "d3"],
                            [op |-> "setDerivative", x |-> "d3", k |-> 40] >>
       \* viewer = db => db.spyResult(['deriv', derivativeId, 1])
       [] e = "viewer" -> << [op |-> "spy", x |-> "d1"] >>
       [] OTHER -> << >>]

RetBase ==
  [e \in Exprs |->
     CASE e = "f1" -> 10
       [] e = "f3" -> 100
       [] e = "thrower" -> 50
       [] e = "creator" -> 60
       [] e = "outer" -> 30
       [] OTHER -> 0]

RECURSIVE Sum(_)
Sum(s) == IF s = <<>> THEN 0 ELSE s[1] + Sum(Tail(s))

\* the expression an instruction names, given the values seen so far
Target(ins, seen) ==
  CASE ins.x = "deriv" -> DerivFor(seen[1])
    [] ins.x = "child" -> ChildFor(seen[1])
    [] OTHER -> ins.x

-----------------------------------------------------------------------------
(* The Database object.                                                    *)

NullSet == [isNull |-> TRUE, exprs |-> {}]

\* new Database(cache, contributors, dependents)
NewDatabase(cache, contributors, dependents) ==
  [ cascadingPredicateAffectedExprsDuringSet |-> NullSet,
    currentlyComputingExprs |-> {},
    currentDeepestComputingExpr |-> NoExpr,
    exprToCachedResult |-> cache,
    exprToContributorExprs |-> contributors,
    exprToDependentExprs |-> dependents ]

EmptyDatabase ==
  NewDatabase([e \in Exprs |-> Absent], [e \in Exprs |-> {}], [e \in Exprs |-> {}])

\* An evaluation in progress: the Database it mutates, and three observers
\* that the code does not have: how often each predicate was invoked, the
\* answers given to requests for an expression that was in
\* currentlyComputingExprs, and the expressions written by setDerivative.
Machine(db) ==
  [db |-> db, calls |-> [e \in Exprs |-> 0], reentrant |-> {}, written |-> {}]

\* record the answer r to a request for expr made in state m
Observed(m, expr, r) ==
  IF expr \in m.db.currentlyComputingExprs
  THEN [r EXCEPT !.m.reentrant =
          @ \cup {[e |-> expr, val |-> r.val, thrown |-> r.thrown,
                   invoked |-> r.m.calls[expr] - m.calls[expr]]}]
  ELSE r

Ret(m, v) == [m |-> m, val |-> v, thrown |-> FALSE]
Thr(m, err) == [m |-> m, val |-> err, thrown |-> TRUE]

\* an addDependency that records both expressions as contributors
addDependency_BothWays(db, dependentExpr, contributorExpr) ==
  [db EXCEPT
     !.exprToContributorExprs =
        [x \in Exprs |->
           IF x = dependentExpr THEN @[x] \cup {contributorExpr}
           ELSE IF x = contributorExpr THEN @[x] \cup {dependentExpr} ELSE @[x]],
     !.exprToDependentExprs =
        [x \in Exprs |->
           IF x = contributorExpr THEN @[x] \cup {dependentExpr}
           ELSE IF x = dependentExpr THEN @[x] \cup {contributorExpr} ELSE @[x]]]

addDependency(db, dependentExpr, contributorExpr) ==
  [db EXCEPT
     !.exprToContributorExprs[dependentExpr] = @ \cup {contributorExpr},
     !.exprToDependentExprs[contributorExpr] = @ \cup {dependentExpr}]

\* a clearExprDependencies that forgets the contributors' dependents sets
clearExprDependencies_KeepsDependents(db, expr) ==
  [db EXCEPT !.exprToContributorExprs[expr] = {}]

clearExprDependencies(db, expr) ==
  LET contributorKeys == db.exprToContributorExprs[expr]
  IN [db EXCEPT
        !.exprToContributorExprs[expr] = {},
        !.exprToDependentExprs =
           [c \in Exprs |-> IF c \in contributorKeys THEN @[c] \ {expr} ELSE @[c]]]

\* an invalidateSingleExprResult that leaves the dependencies in place
invalidateSingleExprResult_KeepsDependencies(db, expr) ==
  [db EXCEPT !.exprToCachedResult[expr] = Absent]

invalidateSingleExprResult(db, expr) ==
  clearExprDependencies([db EXCEPT !.exprToCachedResult[expr] = Absent], expr)

\* an ImmSet in some iteration order
RECURSIVE SetToSeq(_)
SetToSeq(S) ==
  IF S = {} THEN <<>>
  ELSE LET x == CHOOSE y \in S : TRUE IN <<x>> \o SetToSeq(S \ {x})

RECURSIVE VisitDependents(_, _, _)
VisitDependents(db, discoveredExprs, exprVisitQueue) ==
  IF exprVisitQueue = <<>> THEN discoveredExprs
  ELSE LET n == Len(exprVisitQueue)
           currentExpr == exprVisitQueue[n]
           fresh == db.exprToDependentExprs[currentExpr] \ discoveredExprs
       IN VisitDependents(db, discoveredExprs \cup fresh,
                          SubSeq(exprVisitQueue, 1, n - 1) \o SetToSeq(fresh))

\* a getAllDependentExprsIncludingSeed that takes every cached expression
\* for a dependent
getAllDependentExprsIncludingSeed_AllCached(db, expr) ==
  {expr} \cup {e \in Exprs : db.exprToCachedResult[e] # Absent}

\* a getAllDependentExprsIncludingSeed that never visits the dependents
getAllDependentExprsIncludingSeed_SeedOnly(db, expr) == {expr}

\* a getAllDependentExprsIncludingSeed that stops at the direct dependents
getAllDependentExprsIncludingSeed_DirectOnly(db, expr) ==
  {expr} \cup db.exprToDependentExprs[expr]

getAllDependentExprsIncludingSeed(db, expr) ==
  VisitDependents(db, {expr}, <<expr>>)

\* affectedExprs.forEach(invalidateSingleExprResult)
RECURSIVE InvalidateAll(_, _)
InvalidateAll(db, todo) ==
  IF todo = <<>> THEN db
  ELSE InvalidateAll(invalidateSingleExprResult(db, todo[1]), Tail(todo))

RECURSIVE getResultFromImmExpr(_, _)
RECURSIVE RecomputeCreators(_, _, _)
RECURSIVE updateExprCacheAndGetResult(_, _)
RECURSIVE RunBody(_, _, _, _)
RECURSIVE spyResult(_, _)
RECURSIVE setDerivative(_, _, _)
RECURSIVE setResultGetAffectedExprs(_, _, _)

\* a return of undefined that does not read what the creators wrote
ReadDerivative_Undefined(r, expr) == IF r.thrown THEN r ELSE Ret(r.m, Undef)

\* return this.exprToCachedResult.get(immExpr), after the creators were recomputed
ReadDerivative(r, expr) ==
  IF r.thrown THEN r
  ELSE Ret(r.m, IF r.m.db.exprToCachedResult[expr] = Absent THEN Undef
                ELSE r.m.db.exprToCachedResult[expr])

getResultFromImmExpr(m, expr) ==
  Observed(m, expr,
    IF m.db.exprToCachedResult[expr] # Absent
    THEN Ret(m, m.db.exprToCachedResult[expr])
    ELSE IF PredKind[expr] = "function"
    THEN updateExprCacheAndGetResult(m, expr)
    ELSE ReadDerivative(RecomputeCreators(Ret(m, Undef), DerivativeCreators[expr], 1),
                        expr))

\* for (const term of expr) if (term instanceof DerivativeId) ...
\* r is the outcome of the iterations before the i-th
RecomputeCreators(r, creators, i) ==
  IF r.thrown \/ i > Len(creators) THEN r
  ELSE IF r.m.db.exprToCachedResult[creators[i]] # Absent
  THEN RecomputeCreators(r, creators, i + 1)
  ELSE RecomputeCreators(getResultFromImmExpr(r.m, creators[i]), creators, i + 1)

\* the computation of expr begins: lines 229-243 before the call of func
BeginComputing(m, expr) ==
  [m EXCEPT !.db.currentDeepestComputingExpr = expr,
            !.db.currentlyComputingExprs = @ \cup {expr},
            !.calls[expr] = @ + 1]

\* an end of the computation that does not write the result to the cache
EndComputing_NoCacheWrite(r, expr, prevCallingKey) ==
  IF r.thrown THEN r
  ELSE Ret([r.m EXCEPT !.db.currentlyComputingExprs = @ \ {expr},
                       !.db.currentDeepestComputingExpr = prevCallingKey],
           r.val)

\* the computation of expr ends with outcome r: lines 245-255 after the call
\* of func, which a throw of func skips
EndComputing(r, expr, prevCallingKey) ==
  IF r.thrown THEN r
  ELSE Ret([r.m EXCEPT !.db.currentlyComputingExprs = @ \ {expr},
                       !.db.currentDeepestComputingExpr = prevCallingKey,
                       !.db.exprToCachedResult[expr] = r.val],
           r.val)

\* an updateExprCacheAndGetResult that runs the predicate of an expression
\* that is being computed, until the predicate has run three times
updateExprCacheAndGetResult_Reenters(m, expr) ==
  IF expr \in m.db.currentlyComputingExprs /\ m.calls[expr] >= 3
  THEN Ret(m, Undef)
  ELSE EndComputing(RunBody(BeginComputing(m, expr), expr, 1, <<>>), expr,
                    m.db.currentDeepestComputingExpr)

\* an updateExprCacheAndGetResult that raises when asked for an expression
\* that is being computed
updateExprCacheAndGetResult_RaisesOnRecursion(m, expr) ==
  IF expr \in m.db.currentlyComputingExprs
  THEN Thr(m, ErrBoom + 2)
  ELSE EndComputing(RunBody(BeginComputing(m, expr), expr, 1, <<>>), expr,
                    m.db.currentDeepestComputingExpr)

updateExprCacheAndGetResult(m, expr) ==
  IF expr \in m.db.currentlyComputingExprs
  THEN Ret(m, Undef)
  ELSE EndComputing(RunBody(BeginComputing(m, expr), expr, 1, <<>>), expr,
                    m.db.currentDeepestComputingExpr)

\* the rest of a predicate after a call of spyResult or setDerivative had
\* outcome r; the value of a spyResult is kept
RunRest(r, expr, pc, seen, keep) ==
  IF r.thrown THEN r
  ELSE RunBody(r.m, expr, pc, IF keep THEN Append(seen, r.val) ELSE seen)

\* asyncCallStatus(db, fn, arg), r the outcome of its db.spyResult
asyncCallStatus(r) ==
  IF r.thrown THEN r ELSE Ret(r.m, IF r.val = Undef THEN NotStarted ELSE r.val)

\* resultIsReady(db, ...expr), r the outcome of its db.spyResult(expr)
resultIsReady(r) ==
  Ret(r.m, IF r.thrown /\ r.val = ErrAsyncCallIncomplete THEN False ELSE True)

\* db.spyAsyncEffectResult([fn, arg]), r the outcome of spying the status of
\* the call: the result if the call is Complete, AsyncCallIncomplete if not
spyAsyncEffectResult(r) ==
  IF r.thrown THEN r
  ELSE IF r.val = Complete THEN spyResult(r.m, "RESULT")
  ELSE Thr(r.m, ErrAsyncCallIncomplete)

\* func(this, ...args) and pred.setter(this, immExpr, result)
RunBody(m, expr, pc, seen) ==
  IF pc > Len(Body[expr]) THEN Ret(m, RetBase[expr] + Sum(seen))
  ELSE
    CASE Body[expr][pc].op = "spy" ->
           RunRest(spyResult(m, Target(Body[expr][pc], seen)),
                   expr, pc + 1, seen, TRUE)
      [] Body[expr][pc].op = "setDerivative" ->
           RunRest(setDerivative(m, Target(Body[expr][pc], seen),
                                 Body[expr][pc].k + seen[1]),
                   expr, pc + 1, seen, FALSE)
      [] Body[expr][pc].op = "throwIf" ->
           IF Sum(seen) \in Body[expr][pc].vs THEN Thr(m, ErrBoom)
           ELSE RunBody(m, expr, pc + 1, seen)
      [] Body[expr][pc].op = "asyncCallStatus" ->
           asyncCallStatus(spyResult(m, "STATUS"))
      [] Body[expr][pc].op = "resultIsReady" ->
           resultIsReady(spyResult(m, Body[expr][pc].x))
      [] Body[expr][pc].op = "spyAsyncEffectResult" ->
           RunRest(spyAsyncEffectResult(spyResult(m, "STATUS")),
                   expr, pc + 1, seen, TRUE)

spyResult(m, expr) ==
  IF m.db.currentDeepestComputingExpr # NoExpr
  THEN getResultFromImmExpr(
         [m EXCEPT !.db = addDependency(@, m.db.currentDeepestComputingExpr, expr)], expr)
  ELSE getResultFromImmExpr(m, expr)

\* a setDerivative that does not record the creating expression as contributor
RecordCreator_NoDependency(r, expr) ==
  IF r.thrown THEN Thr(r.m, r.val)
  ELSE Ret([r.m EXCEPT !.written = @ \cup {expr}], Undef)

\* this.addDependency(immExpr, this.currentDeepestComputingExpr), after
\* setResultGetAffectedExprs had outcome r
RecordCreator(r, expr) ==
  IF r.thrown THEN Thr(r.m, r.val)
  ELSE Ret([r.m EXCEPT !.db =
              addDependency(@, expr, r.m.db.currentDeepestComputingExpr),
                       !.written = @ \cup {expr}], Undef)

\* the DerivativeId of a creating expression, as a value
ExprNumber(e) == CHOOSE i \in 1..Cardinality(Exprs) : SetToSeq(Exprs)[i] = e
DerivativeId(creatingExpr) == DerivativeIdBase + ExprNumber(creatingExpr)

getDerivativeId(m) ==
  IF m.db.currentDeepestComputingExpr = NoExpr THEN Thr(m, ErrDerivativeMisuse)
  ELSE Ret(m, DerivativeId(m.db.currentDeepestComputingExpr))

setDerivative(m, expr, result) ==
  IF m.db.currentDeepestComputingExpr = NoExpr THEN Thr(m, ErrDerivativeMisuse)
  ELSE RecordCreator(setResultGetAffectedExprs(m, expr, result), expr)

\* lines 163-167: the affected expressions are invalidated, the result is set
InvalidateAndSet(db, expr, result, affectedExprs) ==
  [InvalidateAll(db, SetToSeq(affectedExprs)) EXCEPT
     !.exprToCachedResult[expr] = result]

\* lines 175-185: the setter of a cascading predicate is about to run
BeginCascade(db, expr) ==
  [db EXCEPT
     !.currentDeepestComputingExpr = expr,
     !.cascadingPredicateAffectedExprsDuringSet =
        IF ~db.cascadingPredicateAffectedExprsDuringSet.isNull
        THEN [isNull |-> FALSE, exprs |-> @.exprs \cup {expr}]
        ELSE [isNull |-> FALSE, exprs |-> {}]]

\* lines 189-202: the setter has run with outcome r; a throw of the setter
\* skips them
EndCascade(r, affectedExprs, alreadyInCascadingPredicateSet, prevCallingExpr) ==
  IF r.thrown
  THEN [m |-> r.m, affected |-> {}, thrown |-> TRUE, val |-> r.val]
  ELSE [m |-> [r.m EXCEPT
                 !.db.cascadingPredicateAffectedExprsDuringSet =
                    IF alreadyInCascadingPredicateSet THEN @ ELSE NullSet,
                 !.db.currentDeepestComputingExpr = prevCallingExpr],
        affected |->
           IF alreadyInCascadingPredicateSet THEN affectedExprs
           ELSE affectedExprs \cup
                  r.m.db.cascadingPredicateAffectedExprsDuringSet.exprs,
        thrown |-> FALSE, val |-> Undef]

\* lines 163-205, with the affected expressions computed
SetResult(m, expr, result, affectedExprs) ==
  IF PredKind[expr] # "cascade"
  THEN [m |-> [m EXCEPT !.db = InvalidateAndSet(@, expr, result, affectedExprs)],
        affected |-> affectedExprs, thrown |-> FALSE, val |-> Undef]
  ELSE EndCascade(
         RunBody([m EXCEPT !.db =
                    BeginCascade(InvalidateAndSet(@, expr, result, affectedExprs), expr)],
                 expr, 1, <<result>>),
         affectedExprs,
         ~m.db.cascadingPredicateAffectedExprsDuringSet.isNull,
         m.db.currentDeepestComputingExpr)

setResultGetAffectedExprs(m, expr, result) ==
  SetResult(m, expr, result, getAllDependentExprsIncludingSeed(m.db, expr))

-----------------------------------------------------------------------------
(* The public methods.                                                     *)

getResult(db, expr) == getResultFromImmExpr(Machine(db), expr)

\* what a call returns to the calling program: `this' after the call, the
\* Database returned, and whether the returned Database is an object of its
\* own (new Database(...)) or `this' itself
Returned(this, isNew, r) ==
  [this |-> IF isNew THEN this ELSE r.m.db, newDb |-> r.m.db, isNew |-> isNew,
   affected |-> r.affected, thrown |-> r.thrown, val |-> r.val,
   calls |-> r.m.calls, written |-> r.m.written]

\* a withGetAffectedRels that applies the change to `this' and returns it
withGetAffectedRels_InPlace(db, expr, result) ==
  Returned(db, FALSE, setResultGetAffectedExprs(Machine(db), expr, result))

withGetAffectedRels(db, expr, result) ==
  Returned(db, TRUE,
           setResultGetAffectedExprs(
             Machine(NewDatabase(db.exprToCachedResult, db.exprToContributorExprs,
                                 db.exprToDependentExprs)),
             expr, result))

\* the modifier functions handed to withModified
Modifier(v) == IF v = 1 THEN 2 ELSE 1

\* the invocations and derivative writes of the read g of withModified are
\* added to those of the write w
AfterRead(g, w) ==
  [w EXCEPT !.calls = [e \in Exprs |-> g.m.calls[e] + w.calls[e]],
            !.written = g.m.written \cup w.written]

\* this.withGetAffectedRels(expr, modifier(g)), g the outcome of this.getResult(expr)
ModifyRead(g, expr) ==
  IF g.thrown
  THEN [this |-> g.m.db, newDb |-> g.m.db, isNew |-> FALSE, affected |-> {},
        thrown |-> TRUE, val |-> g.val, calls |-> g.m.calls,
        written |-> g.m.written]
  ELSE AfterRead(g, withGetAffectedRels(g.m.db, expr, Modifier(g.val)))

\* a withModifiedGetAffectedRels that hands undefined to the modifier
withModifiedGetAffectedRels_OfUndefined(db, expr) ==
  ModifyRead(Ret(Machine(db), Undef), expr)

withModifiedGetAffectedRels(db, expr) == ModifyRead(getResult(db, expr), expr)

-----------------------------------------------------------------------------
(* The Reactor.                                                            *)

NoCalls == [e \in Exprs |-> 0]

\* the futures that getResultPromise returns, each named as the callback
\* that its call subscribes to the readiness of the expression
Promised == {"onReady1"}

\* the subscriber callbacks of the calling program (cb3 throws), and those
\* of getResultPromise
Callbacks == {"cb1", "cb2", "cb3"} \cup Promised

\* the value thrown by a subscriber callback
ErrCallback == 904

ErrTypeError == 902

\* a future is a value apart from the numbers, errors and DerivativeIds
FutureBase == 2000

\* what the asynchronous function of the calling program resolves with
RetVal == 42

\* invalidatedExprsPendingSubscriberNotifications is a Set of ImmList
\* objects, which holds two equal lists that are not the same object twice.
\* For each expression: whether the list object that the calling program
\* holds for it is in the Set, and how many other list objects equal to it,
\* each made of an array by a call, are in the Set.
EmptyPending == [e \in Exprs |-> [list |-> FALSE, arrays |-> 0]]

\* new Reactor(initialDb); subscribers.get(e) = undefined is the empty set.
\* promises holds the futures made by getResultPromise, which the callbacks
\* subscribed by it settle.
NewReactor(initialDb) ==
  [db |-> initialDb, subscribers |-> [e \in Exprs |-> {}], pending |-> EmptyPending,
   promises |-> [p \in Promised |-> [state |-> "none", val |-> Undef]]]

NoDeliveries == [e \in Exprs |-> [cb \in Callbacks |-> 0]]

\* the outcome of a call of a Reactor method: the Reactor after it, what it
\* returned or raised, and what the calling program cannot see of it: the
\* predicate invocations, the affected expressions, the expressions
\* written by setDerivative, the callback invocations per expression
Done(rx, val, thrown, calls, affected, written, delivered, started) ==
  [rx |-> rx, val |-> val, thrown |-> thrown, calls |-> calls,
   affected |-> affected, written |-> written, delivered |-> delivered,
   \* how often the call invoked the asynchronous function
   started |-> started]

\* affectedExprs.forEach(expr => this.invalidated....add(expr)); listSeed is
\* the written expression when it was passed as the list object that the
\* calling program holds, and NoExpr when it was passed as an array
AddPending(pending, affectedExprs, listSeed) ==
  [e \in Exprs |->
     IF e \notin affectedExprs THEN pending[e]
     ELSE IF e = listSeed THEN [pending[e] EXCEPT !.list = TRUE]
     ELSE [pending[e] EXCEPT !.arrays = @ + 1]]

\* an applyChangeFunc that invokes the callbacks of the affected expressions
applyChangeFunc_Notifying(rx, w, listSeed) ==
  IF w.thrown
  THEN Done([rx EXCEPT !.db = w.this], w.val, TRUE, w.calls, {}, w.written,
            NoDeliveries, 0)
  ELSE Done([rx EXCEPT !.db = w.newDb], Undef, FALSE, w.calls, w.affected, w.written,
            [e \in Exprs |-> [cb \in Callbacks |->
               IF e \in w.affected /\ cb \in rx.subscribers[e] THEN 1 ELSE 0]], 0)

\* an applyChangeFunc that forgets the expressions that were pending
applyChangeFunc_ReplacesPending(rx, w, listSeed) ==
  IF w.thrown
  THEN Done([rx EXCEPT !.db = w.this], w.val, TRUE, w.calls, {}, w.written,
            NoDeliveries, 0)
  ELSE Done([rx EXCEPT !.db = w.newDb,
                       !.pending = AddPending(EmptyPending, w.affected, listSeed)],
            Undef, FALSE, w.calls, w.affected, w.written, NoDeliveries, 0)

\* w is what func() returned or raised
applyChangeFunc(rx, w, listSeed) ==
  IF w.thrown
  THEN Done([rx EXCEPT !.db = w.this], w.val, TRUE, w.calls, {}, w.written,
            NoDeliveries, 0)
  ELSE Done([rx EXCEPT !.db = w.newDb,
                       !.pending = AddPending(@, w.affected, listSeed)],
            Undef, FALSE, w.calls, w.affected, w.written, NoDeliveries, 0)

set(rx, expr, result, listSeed) ==
  applyChangeFunc(rx, withGetAffectedRels(rx.db, expr, result), listSeed)

modify(rx, expr, listSeed) ==
  applyChangeFunc(rx, withModifiedGetAffectedRels(rx.db, expr), listSeed)

\* g is the outcome of this.db.getResult(expr)
Read(rx, g) ==
  Done([rx EXCEPT !.db = g.m.db], g.val, g.thrown, g.m.calls, {}, g.m.written,
       NoDeliveries, 0)

reactorGetResult(rx, expr) == Read(rx, getResult(rx.db, expr))

\* lines 56-64, g the outcome of this.db.getResult(immExpr)
AddCallback(rx, expr, callback, g) ==
  IF g.thrown THEN Read(rx, g)
  ELSE Done([rx EXCEPT !.db = g.m.db, !.subscribers[expr] = @ \cup {callback}],
            Undef, FALSE, g.m.calls, {}, g.m.written, NoDeliveries, 0)

subscribe(rx, expr, callback) ==
  AddCallback(rx, expr, callback, getResult(rx.db, expr))

\* the function that subscribe(expr, callback) returned
unsubscribe(rx, expr, callback) ==
  IF rx.subscribers[expr] = {}
  THEN Done(rx, ErrTypeError, TRUE, NoCalls, {}, {}, NoDeliveries, 0)
  ELSE IF Cardinality(rx.subscribers[expr]) = 1
  THEN Done([rx EXCEPT !.subscribers[expr] = {}], Undef, FALSE, NoCalls, {}, {},
            NoDeliveries, 0)
  ELSE Done([rx EXCEPT !.subscribers[expr] = @ \ {callback}], Undef, FALSE,
            NoCalls, {}, {}, NoDeliveries, 0)

\* how often flushNotifications finds each expression in the Set
Entries(pending, e) == pending[e].arrays + (IF pending[e].list THEN 1 ELSE 0)

\* what a call b that follows a call a in one method adds to its outcome
AndThen(a, b) ==
  IF a.thrown THEN a
  ELSE [b EXCEPT !.calls = [e \in Exprs |-> a.calls[e] + b.calls[e]],
                 !.affected = a.affected \cup b.affected,
                 !.written = a.written \cup b.written,
                 !.delivered = [e \in Exprs |-> [cb \in Callbacks |->
                                   a.delivered[e][cb] + b.delivered[e][cb]]],
                 !.started = a.started + b.started]

\* a is the outcome of the call that decides how the future p is settled:
\* Promise.reject(err) or reject(err) if it raised, else Promise.resolve(v)
\* or resolve(v) if `settles', else the future stays unsettled.  A future
\* that is settled stays as it is.
Promise(a, p, settles) ==
  [a EXCEPT !.thrown = FALSE, !.val = Undef,
            !.rx.promises[p] =
               IF @.state \in {"resolved", "rejected"} THEN @
               ELSE IF a.thrown THEN [state |-> "rejected", val |-> a.val]
               ELSE IF settles THEN [state |-> "resolved", val |-> a.val]
               ELSE [state |-> "pending", val |-> Undef]]

\* line 117: unsubscribe() after the calls with outcome a
ThenUnsubscribe(a, p) == AndThen(a, unsubscribe(a.rx, "ready", p))

\* lines 108-118, a the outcome of this.getResult(expr) in the callback:
\* reject(err) and return, or resolve and unsubscribe()
Resolved(a, p) ==
  IF a.thrown THEN Promise(a, p, TRUE) ELSE ThenUnsubscribe(Promise(a, p, TRUE), p)

\* the callback that getResultPromise subscribes, lines 102-119; a is the
\* outcome of its this.getResult(readyExpr)
OnReady(a, p) ==
  IF a.thrown \/ a.val \in {Undef, False} THEN a
  ELSE Resolved(AndThen(a, reactorGetResult(a.rx, "outer")), p)

\* callback(): the callbacks of the test programs return without touching
\* the Reactor, cb3 throws
Callback(rx, e, cb) ==
  AndThen(Done(rx, Undef, FALSE, NoCalls, {}, {},
               [NoDeliveries EXCEPT ![e][cb] = 1], 0),
          IF cb = "cb3"
          THEN Done(rx, ErrCallback, TRUE, NoCalls, {}, {}, NoDeliveries, 0)
          ELSE IF cb \in Promised THEN OnReady(reactorGetResult(rx, "ready"), cb)
          ELSE Done(rx, Undef, FALSE, NoCalls, {}, {}, NoDeliveries, 0))

\* the callbacks that the two loops of flushNotifications reach, in an
\* order: the k-th object equal to e in the Set, a callback of e
Planned(rx) ==
  SetToSeq(UNION {{<<k, e, cb>> : k \in 1..Entries(rx.pending, e),
                                 cb \in rx.subscribers[e]} : e \in Exprs})

\* lines 133-140 after the calls with outcome a; a callback that was
\* unsubscribed in the meantime is not reached, a callback that throws ends
\* the loops
RECURSIVE RunCallbacks(_, _)
RunCallbacks(a, todo) ==
  IF a.thrown \/ todo = <<>> THEN a
  ELSE IF todo[1][3] \notin a.rx.subscribers[todo[1][2]]
  THEN RunCallbacks(a, Tail(todo))
  ELSE RunCallbacks(AndThen(a, Callback(a.rx, todo[1][2], todo[1][3])), Tail(todo))

\* line 141, which a throw skips
ClearPending(a) ==
  IF a.thrown THEN a ELSE [a EXCEPT !.rx.pending = EmptyPending]

flushNotifications(rx) ==
  ClearPending(RunCallbacks(Done(rx, Undef, FALSE, NoCalls, {}, {}, NoDeliveries, 0),
                            Planned(rx)))

\* lines 85-120 after this.getResult(readyExpr) had outcome a
ReturnPromise(a, p) ==
  IF a.thrown THEN a
  ELSE IF a.val \notin {Undef, False}
  THEN Promise(AndThen(a, reactorGetResult(a.rx, "outer")), p, TRUE)
  ELSE Promise(AndThen(a, subscribe(a.rx, "ready", p)), p, FALSE)

\* getResultPromise([outer]), returning the future p
getResultPromise(rx, p) == ReturnPromise(reactorGetResult(rx, "ready"), p)

\* the future that the n-th invocation of the asynchronous function returns
Future(n) == FutureBase + n

\* lines 26-42: the call is initiated; n futures exist already
Initiate(a, n) ==
  IF a.thrown THEN a
  ELSE [AndThen(a, set(a.rx, "PROMISE", Future(n + 1), NoExpr))
          EXCEPT !.val = Future(n + 1), !.started = 1]

\* an ensureAsyncRun that does not record that the call is executing
ensureAsyncRunFrom_NoStatus(g, n) ==
  IF g.thrown THEN g
  ELSE IF g.val = Undef
  THEN Initiate(g, n)
  ELSE AndThen(g, reactorGetResult(g.rx, "PROMISE"))

\* g is the outcome of this.db.getResult([ASYNC_CALL_STATUS_INTERNAL_PRED, ...])
ensureAsyncRunFrom(g, n) ==
  IF g.thrown THEN g
  ELSE IF g.val = Undef
  THEN Initiate(AndThen(g, set(g.rx, "STATUS", Executing, NoExpr)), n)
  ELSE AndThen(g, reactorGetResult(g.rx, "PROMISE"))

\* ensureAsyncRun(func, ...args) when func was invoked n times before
ensureAsyncRun(rx, n) == ensureAsyncRunFrom(reactorGetResult(rx, "STATUS"), n)

\* a is the outcome of the evaluation of [resultIsReady, outer]: when the
\* spyAsyncEffectResult in it raised AsyncCallIncomplete, the Reactor calls
\* ensureAsyncRun for the call that the error carries; n as above
Ensured(a, n) ==
  IF a.thrown \/ a.val # False THEN a
  ELSE [AndThen(a, ensureAsyncRun(a.rx, n)) EXCEPT !.val = False]

\* getEnsuredResultPromise([outer]), returning the future p: like
\* getResultPromise, starting the asynchronous call that [outer] waits for.
\* The callback it subscribes is that of getResultPromise: the one call
\* that it could find incomplete is started already.
getEnsuredResultPromise(rx, p, n) ==
  ReturnPromise(Ensured(reactorGetResult(rx, "ready"), n), p)

\* the flush that ends the function given to promise.then
ThenFlush(a) == IF a.thrown THEN a ELSE AndThen(a, flushNotifications(a.rx))

\* a then-callback that clears the status of the call
ThenSetStatus_Clears(a) ==
  IF a.thrown THEN a ELSE ThenFlush(AndThen(a, set(a.rx, "STATUS", Undef, NoExpr)))

\* the function given to promise.then, lines 35-40
ThenSetStatus(a) ==
  IF a.thrown THEN a ELSE ThenFlush(AndThen(a, set(a.rx, "STATUS", Complete, NoExpr)))

\* a then-callback that does not store the value the future resolved with
OnFulfilled_ForgetsResult(rx, retVal) == ThenSetStatus(reactorGetResult(rx, "RESULT"))

OnFulfilled(rx, retVal) == ThenSetStatus(set(rx, "RESULT", retVal, NoExpr))

-----------------------------------------------------------------------------
(* The state: the Database objects, the variables of the calling program   *)
(* that refer to them, and the outcome of the last call.                   *)

VARIABLES program, heap, ref, last

\* The Reactor of the calling program, the unsubscribe functions it was
\* given, the futures its asynchronous function returned, what happened
\* since the last flush, and the outcome of the last call on the Reactor.
VARIABLES reactor, handles, futures, history, rlast

reactorVars == <<reactor, handles, futures, history, rlast>>

vars == <<program, heap, ref, last, reactor, handles, futures, history, rlast>>

\* the variables of the calling program that hold a Database, and the objects
Slots == {"db", "kept"}
ObjIds == {"o1", "o2"}

\* the calling programs: the expressions each one works with, and the
\* variables in which it holds a Database
Programs ==
  [ graph |-> [exprs |-> {"base1", "f1", "f3", "rec", "thrower"}, slots |-> {"db"}],
    fork |-> [exprs |-> {"base1", "f1", "thrower"}, slots |-> Slots],
    derivative |-> [exprs |-> {"base2", "creator", "d1", "d2"}, slots |-> Slots],
    cascade |-> [exprs |-> {"PARENT", "CHILD1", "CHILD2", "GRAND"}, slots |-> Slots],
    viewing |-> [exprs |-> {"base2", "creator", "d1", "viewer"}, slots |-> {"db"}],
    cyclic |-> [exprs |-> {"base1", "rec", "ping", "pong", "maker", "d3", "thrower"},
                slots |-> {"db"}] ]

\* the expressions the calling program writes with with() and withModified(),
\* spies from outside any predicate, and writes with setDerivative()
Writable == {"base1", "base2", "PARENT"}
TopSpied == {"f1", "creator", "GRAND"}
TopDerived == {"GRAND", "base1"}

Outcome(op, s, t, e, val, thrown, calls, reentrant, affected, written) ==
  [op |-> op, slot |-> s, to |-> t, e |-> e, val |-> val, thrown |-> thrown,
   calls |-> calls, reentrant |-> reentrant, affected |-> affected,
   written |-> written,
   \* the expression had a cache entry / the evaluator was idle when the call began
   wasCached |-> heap[ref[s]].exprToCachedResult[e] # Absent,
   wasIdle |-> heap[ref[s]].currentlyComputingExprs = {},
   \* the call repeats the call before it: the same read of the same Database
   repeat |-> /\ op = "getResult"
              /\ last.op = "getResult"
              /\ last.slot = s
              /\ last.e = e]

\* no write since the last flush
NoHistory == [stale |-> {}, due |-> {}, reached |-> {}, cascaded |-> {}, writes |-> 0]

\* new Reactor()
ReactorInit ==
  /\ reactor = NewReactor(EmptyDatabase)
  /\ handles = {}
  /\ futures = <<>>
  /\ history = NoHistory
  /\ rlast = [op |-> "none", e |-> NoExpr, cb |-> "cb1", form |-> NoExpr,
              out |-> Done(NewReactor(EmptyDatabase), Undef, FALSE, NoCalls, {}, {},
                           NoDeliveries, 0)]

Init ==
  /\ ReactorInit
  /\ program \in {"graph", "fork", "derivative", "cascade"}
  /\ heap = [o \in ObjIds |-> EmptyDatabase]
  /\ ref = [s \in Slots |-> IF s = "db" THEN "o1" ELSE "o2"]
  /\ last = [op |-> "none", slot |-> "db", to |-> "db", e |-> "base1", val |-> Undef,
             thrown |-> FALSE, calls |-> NoCalls, reentrant |-> {},
             affected |-> {}, written |-> {}, wasCached |-> FALSE, wasIdle |-> TRUE,
             repeat |-> FALSE]

\* a call on the Database in s that returns no Database had outcome r
Called(op, s, e, r) ==
  /\ heap' = [heap EXCEPT ![ref[s]] = r.m.db]
  /\ last' = Outcome(op, s, s, e, r.val, r.thrown, r.m.calls, r.m.reentrant, {},
                     r.m.written)
  /\ UNCHANGED <<program, ref>>
  /\ UNCHANGED reactorVars

GetResult(s, e) == Called("getResult", s, e, getResult(heap[ref[s]], e))

SpyResult(s, e) == Called("spyResult", s, e, spyResult(Machine(heap[ref[s]]), e))

SetDerivative(s, e, v) ==
  Called("setDerivative", s, e, setDerivative(Machine(heap[ref[s]]), e, v))

\* e is the expression the calling program works on, not an argument
GetDerivativeId(s, e) ==
  Called("getDerivativeId", s, e, getDerivativeId(Machine(heap[ref[s]])))

\* an object that no variable other than t refers to
FreshObj(t) == CHOOSE o \in ObjIds : \A k \in Slots \ {t} : ref[k] # o

\* t = s.with(e, v) and t = s.withModified(e, modifier)
Assign(op, s, t, e, w) ==
  /\ last' = Outcome(op, s, t, e, w.val, w.thrown, w.calls, {}, w.affected, w.written)
  /\ UNCHANGED program
  /\ UNCHANGED reactorVars
  /\ IF w.thrown
     THEN /\ heap' = [heap EXCEPT ![ref[s]] = w.this]
          /\ UNCHANGED ref
     ELSE IF w.isNew
     THEN /\ heap' = [o \in ObjIds |->
                        IF o = FreshObj(t) THEN w.newDb
                        ELSE IF o = ref[s] THEN w.this ELSE heap[o]]
          /\ ref' = [ref EXCEPT ![t] = FreshObj(t)]
     ELSE /\ heap' = [heap EXCEPT ![ref[s]] = w.newDb]
          /\ ref' = [ref EXCEPT ![t] = ref[s]]

With(s, t, e, v) == Assign("with", s, t, e, withGetAffectedRels(heap[ref[s]], e, v))

WithModified(s, t, e) ==
  Assign("withModified", s, t, e, withModifiedGetAffectedRels(heap[ref[s]], e))

Mine == Programs[program].exprs
MySlots == Programs[program].slots

Next ==
  \/ \E s \in MySlots, e \in Mine : GetResult(s, e)
  \/ \E s \in MySlots, e \in Mine \cap TopSpied : SpyResult(s, e)
  \/ \E s \in MySlots, e \in Mine \cap TopDerived, v \in WrittenValues :
        SetDerivative(s, e, v)
  \/ \E s \in MySlots, e \in Mine \cap TopDerived : GetDerivativeId(s, e)
  \/ \E s \in MySlots, t \in MySlots, e \in Mine \cap Writable, v \in WrittenValues :
        With(s, t, e, v)
  \/ \E s \in MySlots, t \in MySlots, e \in Mine \cap Writable : WithModified(s, t, e)

Spec == Init /\ [][Next]_vars

\* the program that reads a derivative expression inside a predicate
ViewingInit ==
  /\ ReactorInit
  /\ program = "viewing"
  /\ heap = [o \in ObjIds |-> EmptyDatabase]
  /\ ref = [s \in Slots |-> IF s = "db" THEN "o1" ELSE "o2"]
  /\ last = [op |-> "none", slot |-> "db", to |-> "db", e |-> "base1", val |-> Undef,
             thrown |-> FALSE, calls |-> NoCalls, reentrant |-> {}, written |-> {},
             affected |-> {}, wasCached |-> FALSE, wasIdle |-> TRUE, repeat |-> FALSE]

ViewingNext ==
  \/ \E s \in MySlots, e \in Mine : GetResult(s, e)
  \/ \E s \in MySlots, e \in Mine \cap TopSpied : SpyResult(s, e)
  \/ \E s \in MySlots, t \in MySlots, e \in Mine \cap Writable, v \in WrittenValues :
        With(s, t, e, v)
  \/ \E s \in MySlots, t \in MySlots, e \in Mine \cap Writable : WithModified(s, t, e)

ViewingSpec == ViewingInit /\ [][ViewingNext]_vars

\* the program whose predicates spy themselves, each other, and a
\* derivative expression of the expression being computed
CyclicInit ==
  /\ ReactorInit
  /\ program = "cyclic"
  /\ heap = [o \in ObjIds |-> EmptyDatabase]
  /\ ref = [s \in Slots |-> IF s = "db" THEN "o1" ELSE "o2"]
  /\ last = [op |-> "none", slot |-> "db", to |-> "db", e |-> "base1", val |-> Undef,
             thrown |-> FALSE, calls |-> NoCalls, reentrant |-> {}, written |-> {},
             affected |-> {}, wasCached |-> FALSE, wasIdle |-> TRUE, repeat |-> FALSE]

CyclicNext ==
  \/ \E s \in MySlots, e \in Mine : GetResult(s, e)
  \/ \E s \in MySlots, t \in MySlots, e \in Mine \cap Writable, v \in WrittenValues :
        With(s, t, e, v)

CyclicSpec == CyclicInit /\ [][CyclicNext]_vars

-----------------------------------------------------------------------------
(* The calling programs of the Reactor.                                    *)

\* the expressions each program reads, the subscriptions it makes and the
\* expressions it writes
ReactorPrograms ==
  [ notifying |-> [exprs |-> {"base1", "f1"},
                   watched |-> {<<"f1", "cb1">>, <<"f1", "cb2">>, <<"base1", "cb1">>},
                   written |-> {"base1"}],
    cascading |-> [exprs |-> {"PARENT", "CHILD1", "CHILD2", "GRAND"},
                   watched |-> {<<"GRAND", "cb1">>, <<"CHILD2", "cb2">>},
                   written |-> {"PARENT"}],
    asynchronous |-> [exprs |-> {"STATUS", "RESULT", "PROMISE", "asyncCallStatus"},
                      watched |-> {<<"STATUS", "cb1">>, <<"RESULT", "cb2">>,
                                   <<"PROMISE", "cb2">>},
                      written |-> {}],
    awaiting |-> [exprs |-> {"inner", "outer", "ready", "STATUS"},
                  watched |-> {},
                  written |-> {"base1"}],
    failing |-> [exprs |-> {"f1"},
                 watched |-> {<<"base1", "cb3">>, <<"f1", "cb1">>, <<"thrower", "cb2">>},
                 written |-> {"base1"}],
    guarding |-> [exprs |-> {"GUARD", "NOTE"},
                  watched |-> {<<"NOTE", "cb1">>, <<"GUARD", "cb2">>},
                  written |-> {"GUARD"}] ]

Watched == ReactorPrograms[program].watched
ReactorWritten == ReactorPrograms[program].written

\* the expressions reached from the expressions of `frontier' by following
\* dependents edges (none or more)
RECURSIVE DependentsFrom(_, _, _)
DependentsFrom(db, frontier, seen) ==
  IF frontier = {} THEN seen
  ELSE DependentsFrom(db,
         (UNION {db.exprToDependentExprs[x] : x \in frontier}) \ (seen \cup frontier),
         seen \cup frontier)

\* the expressions whose predicate a call invoked
Ran(out) == {e \in Exprs : out.calls[e] > 0}

\* what has happened since the last flush, after the call op with outcome
\* out: the expressions affected by a write whose predicate has not run
\* since (stale), the affected sets of the writes (due), the expressions
\* written and their dependents at the time of the write (reached), the
\* expressions written by setters (cascaded), and the number of writes
HistoryAfter(op, seeds, out) ==
  CASE op \in {"flush", "resolve"} /\ ~out.thrown ->
         [NoHistory EXCEPT !.stale = (history.stale \cup out.affected) \ Ran(out)]
    [] op \in {"set", "modify", "ensureAsyncRun", "getEnsuredResultPromise"}
       /\ ~out.thrown /\ out.affected # {} ->
         [stale |-> (history.stale \ Ran(out)) \cup out.affected,
          due |-> history.due \cup out.affected,
          reached |-> history.reached \cup DependentsFrom(reactor.db, seeds, {}),
          cascaded |-> history.cascaded \cup out.written,
          writes |-> history.writes + (IF op \in {"set", "modify"} THEN 1 ELSE 0)]
    [] OTHER -> [history EXCEPT !.stale = @ \ Ran(out)]

\* a call of a method of the Reactor had outcome out
ReactorCalled(op, e, cb, form, seeds, out) ==
  /\ reactor' = out.rx
  /\ history' = HistoryAfter(op, seeds, out)
  /\ rlast' = [op |-> op, e |-> e, cb |-> cb, form |-> form, out |-> out]
  /\ UNCHANGED <<program, heap, ref, last>>

\* reactor.set(e, v), e passed as an array (form = NoExpr) or as the list
\* object the program holds for e (form = e)
Set(e, v, form) ==
  /\ history.writes < MaxPendingWrites
  /\ ReactorCalled("set", e, "cb1", form, {e}, set(reactor, e, v, form))
  /\ UNCHANGED <<handles, futures>>

Modify(e) ==
  /\ history.writes < MaxPendingWrites
  /\ ReactorCalled("modify", e, "cb1", NoExpr, {e}, modify(reactor, e, NoExpr))
  /\ UNCHANGED <<handles, futures>>

ReactorGetResult(e) ==
  /\ ReactorCalled("getResult", e, "cb1", NoExpr, {}, reactorGetResult(reactor, e))
  /\ UNCHANGED <<handles, futures>>

\* the unsubscribe function returned is kept by the program
Subscribed(e, cb, out) ==
  /\ ReactorCalled("subscribe", e, cb, NoExpr, {}, out)
  /\ handles' = IF out.thrown THEN handles ELSE handles \cup {<<e, cb>>}
  /\ UNCHANGED futures

Subscribe(e, cb) == Subscribed(e, cb, subscribe(reactor, e, cb))

\* the program calls an unsubscribe function it was given
Unsubscribe(h) ==
  /\ ReactorCalled("unsubscribe", h[1], h[2], NoExpr, {}, unsubscribe(reactor, h[1], h[2]))
  /\ UNCHANGED <<handles, futures>>

FlushNotifications ==
  /\ ReactorCalled("flush", NoExpr, "cb1", NoExpr, {}, flushNotifications(reactor))
  /\ UNCHANGED <<handles, futures>>

\* a future is pending until it resolves
EnsuredAsyncRun(out) ==
  /\ ReactorCalled("ensureAsyncRun", "STATUS", "cb1", NoExpr, {"STATUS", "PROMISE"}, out)
  /\ futures' = IF out.started > 0 THEN Append(futures, "pending") ELSE futures
  /\ UNCHANGED handles

EnsureAsyncRun ==
  /\ Len(futures) < MaxFutures
  /\ EnsuredAsyncRun(ensureAsyncRun(reactor, Len(futures)))

\* the i-th future resolves and the function given to promise.then runs
Resolve(i) ==
  /\ futures[i] = "pending"
  /\ ReactorCalled("resolve", "RESULT", "cb1", NoExpr, {"RESULT", "STATUS"},
                   OnFulfilled(reactor, RetVal))
  /\ futures' = [futures EXCEPT ![i] = "resolved"]
  /\ UNCHANGED handles

\* the program calls getResultPromise([outer]) and keeps the future
GetResultPromise(p) ==
  /\ reactor.promises[p].state = "none"
  /\ p = CHOOSE q \in Promised : reactor.promises[q].state = "none"
  /\ ReactorCalled("getResultPromise", "outer", p, NoExpr, {},
                   getResultPromise(reactor, p))
  /\ UNCHANGED <<handles, futures>>

\* the program calls getEnsuredResultPromise([outer]) and keeps the future
EnsuredResultPromise(p, out) ==
  /\ ReactorCalled("getEnsuredResultPromise", "outer", p, NoExpr, {"STATUS", "PROMISE"}, out)
  /\ futures' = IF out.started > 0 THEN Append(futures, "pending") ELSE futures
  /\ UNCHANGED handles

GetEnsuredResultPromise(p) ==
  /\ reactor.promises[p].state = "none"
  /\ Len(futures) < MaxFutures
  /\ EnsuredResultPromise(p, getEnsuredResultPromise(reactor, p, Len(futures)))

ReactorExprs == ReactorPrograms[program].exprs

ReactorNext ==
  \/ \E e \in ReactorWritten, v \in WrittenValues :
        \E form \in {NoExpr, e} : Set(e, v, form)
  \/ \E e \in ReactorWritten : Modify(e)
  \/ \E e \in ReactorExprs : ReactorGetResult(e)
  \/ \E w \in Watched : Subscribe(w[1], w[2])
  \/ \E h \in handles : Unsubscribe(h)
  \/ FlushNotifications
  \/ "STATUS" \in ReactorExprs /\ EnsureAsyncRun
  \/ \E i \in 1..Len(futures) : Resolve(i)

ReactorProgramInit ==
  /\ ReactorInit
  /\ program \in {"notifying", "cascading", "asynchronous"}
  /\ heap = [o \in ObjIds |-> EmptyDatabase]
  /\ ref = [s \in Slots |-> IF s = "db" THEN "o1" ELSE "o2"]
  /\ last = [op |-> "none", slot |-> "db", to |-> "db", e |-> "base1", val |-> Undef,
             thrown |-> FALSE, calls |-> NoCalls, reentrant |-> {},
             affected |-> {}, written |-> {}, wasCached |-> FALSE, wasIdle |-> TRUE,
             repeat |-> FALSE]

ReactorSpec == ReactorProgramInit /\ [][ReactorNext]_vars

\* the programs that wait for the result of an expression, or subscribe a
\* callback that throws
AwaitingInit ==
  /\ ReactorInit
  /\ program \in {"awaiting", "failing"}
  /\ heap = [o \in ObjIds |-> EmptyDatabase]
  /\ ref = [s \in Slots |-> IF s = "db" THEN "o1" ELSE "o2"]
  /\ last = [op |-> "none", slot |-> "db", to |-> "db", e |-> "base1", val |-> Undef,
             thrown |-> FALSE, calls |-> NoCalls, reentrant |-> {},
             affected |-> {}, written |-> {}, wasCached |-> FALSE, wasIdle |-> TRUE,
             repeat |-> FALSE]

AwaitingNext ==
  \/ \E e \in ReactorWritten, v \in WrittenValues : Set(e, v, NoExpr)
  \/ \E e \in ReactorExprs : ReactorGetResult(e)
  \/ \E w \in Watched : Subscribe(w[1], w[2])
  \/ FlushNotifications
  \/ "STATUS" \in ReactorExprs /\ EnsureAsyncRun
  \/ \E i \in 1..Len(futures) : Resolve(i)
  \/ \E p \in Promised : "ready" \in ReactorExprs /\ GetResultPromise(p)
  \/ \E p \in Promised : "ready" \in ReactorExprs /\ GetEnsuredResultPromise(p)

AwaitingSpec == AwaitingInit /\ [][AwaitingNext]_vars

\* the program that writes an expression whose cascading setter can throw
GuardingInit ==
  /\ ReactorInit
  /\ program = "guarding"
  /\ heap = [o \in ObjIds |-> EmptyDatabase]
  /\ ref = [s \in Slots |-> IF s = "db" THEN "o1" ELSE "o2"]
  /\ last = [op |-> "none", slot |-> "db", to |-> "db", e |-> "base1", val |-> Undef,
             thrown |-> FALSE, calls |-> NoCalls, reentrant |-> {},
             affected |-> {}, written |-> {}, wasCached |-> FALSE, wasIdle |-> TRUE,
             repeat |-> FALSE]

GuardingNext ==
  \/ \E e \in ReactorWritten, v \in WrittenValues :
        \E form \in {NoExpr, e} : Set(e, v, form)
  \/ \E e \in ReactorWritten : Modify(e)
  \/ \E e \in ReactorExprs : ReactorGetResult(e)
  \/ \E w \in Watched : Subscribe(w[1], w[2])
  \/ \E h \in handles : Unsubscribe(h)
  \/ FlushNotifications

GuardingSpec == GuardingInit /\ [][GuardingNext]_vars

-----------------------------------------------------------------------------
(* Notions the properties are stated in.                                   *)

\* the Database a variable of the calling program refers to
At(s) == heap[ref[s]]

Cached(db) == {e \in Exprs : db.exprToCachedResult[e] # Absent}

TotalCalls(calls) == Sum([i \in 1..Cardinality(Exprs) |-> calls[SetToSeq(Exprs)[i]]])

\* the expressions reached from the expressions of `frontier' by following
\* contributor edges (one or more), staying inside `nodes'
RECURSIVE ContributorsFrom(_, _, _, _)
ContributorsFrom(db, nodes, frontier, seen) ==
  LET next == (UNION {db.exprToContributorExprs[x] : x \in frontier}) \cap nodes
  IN IF next \subseteq seen THEN seen
     ELSE ContributorsFrom(db, nodes, next \ seen, seen \cup next)

TransitiveContributors(db, x) == ContributorsFrom(db, Exprs, {x}, {})

NoCycleAmong(db, nodes) ==
  \A x \in nodes : x \notin ContributorsFrom(db, nodes, {x}, {})

\* the expressions whose predicate spies the expression itself
SelfSpying ==
  {e \in Exprs : \E i \in 1..Len(Body[e]) : Body[e][i].op = "spy" /\ Body[e][i].x = e}

\* the expressions some predicate or setter writes with setDerivative
DerivativeExprs ==
  {x \in Exprs : \E e \in Exprs : \E i \in 1..Len(Body[e]), v \in {Undef} \cup WrittenValues :
      /\ Body[e][i].op = "setDerivative"
      /\ x = Target(Body[e][i], <<v>>)}

\* a Database holding only the values written by the calling program
FromScratch(db) ==
  NewDatabase([e \in Exprs |-> IF e \in Writable THEN db.exprToCachedResult[e] ELSE Absent],
              [e \in Exprs |-> {}], [e \in Exprs |-> {}])

-----------------------------------------------------------------------------
(* C1: in every Database the calling program holds, between calls, f is in *)
(* dependents[e] exactly when e is in contributors[f].                     *)
C1_InverseIndices ==
  \A s \in Slots : \A e \in Exprs, f \in Exprs :
     (f \in At(s).exprToDependentExprs[e]) <=> (e \in At(s).exprToContributorExprs[f])

\* a write has invalidated a dependent and edges are left in the indices
C1_Witness ==
  /\ last.op = "with"
  /\ Cardinality(last.affected) > 1
  /\ \E e \in Exprs : At(last.to).exprToContributorExprs[e] # {}

(* C2: getResult of a function-headed expression gives what an evaluation  *)
(* of its predicate gives on a Database that holds only the written values *)
(* (the claim as stated; the code violates it).                            *)
C2_NeverStale ==
  \A s \in Slots : \A e \in Exprs :
     PredKind[e] = "function" =>
        LET r == getResult(At(s), e)
            f == getResult(FromScratch(At(s)), e)
        IN r.thrown = f.thrown /\ r.val = f.val

(* C3 as stated: after with(e, v), no cached expression other than e has   *)
(* e among its transitive contributors.                                    *)
C3_NoCachedDependentLeft ==
  (last.op = "with" /\ ~last.thrown) =>
     \A x \in Cached(At(last.to)) \ {last.e} :
        last.e \notin TransitiveContributors(At(last.to), x)

(* C3 as amended: after with(e, v), no cached expression other than e and  *)
(* the expressions written by the setters of the cascade that e starts has *)
(* e among its transitive contributors.                                    *)
C3_NoCachedDependentLeftButConsequences ==
  (last.op = "with" /\ ~last.thrown) =>
     \A x \in Cached(At(last.to)) \ ({last.e} \cup last.written) :
        last.e \notin TransitiveContributors(At(last.to), x)

\* a write has invalidated a chain of dependents
C3_Witness ==
  /\ last.op = "with"
  /\ ~last.thrown
  /\ Cardinality(last.affected) >= 3

(* C4 as stated: a getResult(e) that directly follows a getResult(e) on    *)
(* the same Database has the same outcome, invokes no predicate and leaves *)
(* the Database as it was (the code violates it).                          *)
C4_IdempotentRead ==
  [][last'.repeat =>
       /\ last'.val = last.val
       /\ last'.thrown = last.thrown
       /\ last'.calls = NoCalls
       /\ heap' = heap]_vars

(* C5 as stated: after getResult(e) raised err out of a predicate, e has a *)
(* cache entry and getResult(e) and spyResult(e) raise err again without   *)
(* invoking a predicate (the code violates it).                            *)
C5_ThrownIsCached ==
  (last.op = "getResult" /\ last.thrown /\ PredKind[last.e] = "function") =>
     LET db == At(last.slot)
         g == getResult(db, last.e)
         q == spyResult(Machine(db), last.e)
     IN /\ last.e \in Cached(db)
        /\ g.thrown /\ g.val = last.val /\ g.m.calls = NoCalls
        /\ q.thrown /\ q.val = last.val /\ q.m.calls = NoCalls

(* C6 as stated: getResult of an uncached expression whose predicate spies *)
(* that expression raises, and leaves the expression without cache entry.  *)
C6_RecursionRaises ==
  (last.op = "getResult" /\ last.e \in SelfSpying /\ ~last.wasCached) =>
     /\ last.thrown
     /\ last.e \notin Cached(At(last.slot))

(* C6 as amended: getResult of an uncached expression whose predicate      *)
(* spies that expression raises nothing, and the value the predicate       *)
(* returned is cached for the expression.                                  *)
C6_RecursionReturnsAndCaches ==
  (last.op = "getResult" /\ last.e \in SelfSpying /\ ~last.wasCached) =>
     /\ ~last.thrown
     /\ At(last.slot).exprToCachedResult[last.e] = last.val

\* a self-spying predicate has run and asked for itself
C6_Witness ==
  /\ last.op = "getResult"
  /\ last.e \in SelfSpying
  /\ ~last.wasCached
  /\ last.reentrant # {}

(* C7: every request for an expression that is in currentlyComputingExprs  *)
(* returns undefined and invokes no predicate; a getResult of an uncached  *)
(* self-spying expression invokes its predicate once and raises nothing.   *)
C7_ReentrantRequestIsUndefined ==
  /\ \A q \in last.reentrant : q.val = Undef /\ ~q.thrown /\ q.invoked = 0
  /\ (last.op = "getResult" /\ last.e \in SelfSpying /\ ~last.wasCached) =>
        /\ last.calls[last.e] = 1
        /\ ~last.thrown

\* the predicate of the expression read has asked for that expression
C7_Witness ==
  /\ last.op = "getResult"
  /\ last.calls[last.e] = 1
  /\ \E q \in last.reentrant : q.e = last.e

(* C8 as stated: the contributors relation restricted to the cached        *)
(* expressions has no cycle.                                               *)
C8_NoCycleAmongCached ==
  \A s \in Slots : NoCycleAmong(At(s), Cached(At(s)))

(* C8 as amended: the contributors relation restricted to the cached       *)
(* expressions that neither spy themselves nor are written by              *)
(* setDerivative has no cycle.                                             *)
C8_NoCycleButRecursionAndDerivatives ==
  \A s \in Slots :
     NoCycleAmong(At(s), Cached(At(s)) \ (SelfSpying \cup DerivativeExprs))

\* a chain of two contributor edges between cached expressions
C8_Witness ==
  \E s \in Slots : \E x \in Cached(At(s)), y \in Cached(At(s)), z \in Cached(At(s)) :
     /\ {x, y, z} \cap (SelfSpying \cup DerivativeExprs) = {}
     /\ y \in At(s).exprToContributorExprs[x]
     /\ z \in At(s).exprToContributorExprs[y]

(* C9 as stated: between calls, an expression without cache entry has no   *)
(* contributors (the code violates it).                                    *)
C9_UncachedHasNoContributors ==
  \A s \in Slots : \A e \in Exprs \ Cached(At(s)) :
     At(s).exprToContributorExprs[e] = {}

(* C10: t = s.with(e, v) with another variable t leaves the Database of s  *)
(* as it was, and a call on the Database of one variable leaves the        *)
(* Database of every other variable as it was.                             *)
C10_ReceiverUntouched ==
  [][/\ (last'.op = "with" /\ last'.to # last'.slot) =>
           heap'[ref'[last'.slot]] = heap[ref[last'.slot]]
     /\ (last'.op \in {"getResult", "spyResult", "setDerivative"}) =>
           \A t \in Slots \ {last'.slot} : heap'[ref'[t]] = heap[ref[t]]]_vars

\* a predicate has run on one Database while another variable holds the
\* Database that with() made of it
C10_Witness ==
  /\ last.op = "getResult"
  /\ TotalCalls(last.calls) > 0
  /\ \A s \in Slots : Cached(At(s)) # {}
  /\ At("db") # At("kept")

\* the expressions whose predicate or setter writes d with setDerivative
Writers(d) ==
  {c \in Exprs : \E i \in 1..Len(Body[c]), v \in {Undef} \cup WrittenValues :
      /\ Body[c][i].op = "setDerivative"
      /\ d = Target(Body[c][i], <<v>>)}

(* C11: a call that invalidates an expression c leaves every cached        *)
(* expression that c writes with setDerivative without cache entry unless  *)
(* the call itself writes it again, and an expression that c writes gets a *)
(* cache entry only in a call that runs c and writes the expression.       *)
C11_DerivativesFollowCreator ==
  [][\A d \in DerivativeExprs \ Writable :
        /\ (/\ d \in Cached(heap[ref[last'.slot]])
            /\ Writers(d) \cap last'.affected # {})
              => (d \notin Cached(heap'[ref'[last'.to]]) \/ d \in last'.written)
        /\ (/\ d \notin Cached(heap[ref[last'.slot]])
            /\ d \in Cached(heap'[ref'[last'.to]]))
              => /\ d \in last'.written
                 /\ \E c \in Writers(d) :
                       last'.calls[c] > 0 \/ c = last'.e \/ c \in last'.written]_vars

\* a write has invalidated the predicate that wrote the derivative d1 and
\* d1 with it
C11_Witness ==
  /\ last.op = "with"
  /\ {"creator", "d1"} \subseteq last.affected
  /\ "d1" \notin Cached(At(last.to))

(* C12 as stated: the affected set of a write of a CascadingPredicate-     *)
(* headed expression contains every expression written by the setters of   *)
(* the cascade (the code violates it).                                     *)
C12_AffectedIncludesWritten ==
  (last.op = "with" /\ ~last.thrown /\ PredKind[last.e] = "cascade") =>
     last.written \subseteq last.affected

(* C13 as stated: getDerivativeId and setDerivative called by the program, *)
(* outside of every predicate and setter, raise and leave every Database   *)
(* as it was (the code violates it).                                       *)
C13_MisuseRaises ==
  [][last'.op \in {"setDerivative", "getDerivativeId"} =>
       /\ last'.thrown
       /\ last'.val = ErrDerivativeMisuse
       /\ heap' = heap]_vars

-----------------------------------------------------------------------------
(* Properties of the Reactor.                                              *)

\* the calls that flush: flushNotifications, and the function given to
\* promise.then, which ends with a flush
Flushing == {"flush", "resolve"}

(* C14: no call other than a flush invokes a callback: set, modify and     *)
(* every call made between a write and the next flush leave the invocation *)
(* counts as they were.                                                    *)
C14_OnlyFlushInvokes ==
  rlast.op \notin Flushing => rlast.out.delivered = NoDeliveries

\* a set has made an expression pending that has a subscriber
C14_Witness ==
  /\ rlast.op = "set"
  /\ reactor.subscribers[rlast.e] # {}
  /\ Entries(reactor.pending, rlast.e) > 0

(* C15 as stated: one flush invokes each callback subscribed to an         *)
(* expression at most once for that expression (the code violates it).     *)
C15_AtMostOncePerFlush ==
  rlast.op \in Flushing =>
     \A e \in Exprs, cb \in Callbacks : rlast.out.delivered[e][cb] <= 1

(* C16: a write does not make pending a subscribed function-headed         *)
(* expression that an earlier write has affected and whose predicate has   *)
(* not run since; it makes pending once more a cached function-headed      *)
(* expression whose predicate has run since and which has the written      *)
(* expression among its transitive contributors; and a flush invokes the   *)
(* callbacks of every pending expression.                                  *)
C16_NotifiesAgainOnlyAfterRecompute ==
  [][/\ rlast'.op \in {"set", "modify"} =>
          \A e \in Exprs :
             (PredKind[e] = "function" /\ reactor.subscribers[e] # {}) =>
                /\ e \in history.stale =>
                      Entries(reactor'.pending, e) = Entries(reactor.pending, e)
                /\ (/\ e \notin history.stale
                    /\ e \in Cached(reactor.db)
                    /\ rlast'.e \in TransitiveContributors(reactor.db, e)) =>
                      Entries(reactor'.pending, e) = Entries(reactor.pending, e) + 1
     /\ rlast'.op = "flush" =>
          \A e \in Exprs : \A cb \in reactor.subscribers[e] :
             Entries(reactor.pending, e) > 0 => rlast'.out.delivered[e][cb] >= 1]_vars

\* after a flush, a second write of the contributor has left the
\* subscribed dependent, which was not evaluated again, out of its affected
\* set and out of the pending set
C16_Witness ==
  /\ rlast.op = "set"
  /\ rlast.e = "base1"
  /\ "f1" \in history.stale
  /\ "f1" \notin rlast.out.affected
  /\ reactor.subscribers["f1"] # {}
  /\ history.writes = 1

(* C17: a flush invokes every callback subscribed to an expression that    *)
(* was in the affected set of a write since the flush before, and leaves   *)
(* the pending set empty.                                                  *)
C17_FlushInvokesAllDue ==
  [][rlast'.op \in Flushing =>
       /\ \A x \in history.due \cup rlast'.out.affected :
             \A cb \in reactor.subscribers[x] : rlast'.out.delivered[x][cb] >= 1
       /\ reactor'.pending = EmptyPending]_vars

\* a flush has invoked two callbacks subscribed to one expression, after
\* two writes
C17_Witness ==
  /\ rlast.op = "flush"
  /\ \E x \in Exprs :
        /\ Cardinality(reactor.subscribers[x]) = 2
        /\ \A cb \in reactor.subscribers[x] : rlast.out.delivered[x][cb] >= 1

\* the expressions written since the flush before and their dependents at
\* the time of the write, when the call rlast' flushes
ReachedAtFlush ==
  history.reached \cup
    (IF rlast'.op = "resolve"
     THEN DependentsFrom(reactor.db, {"RESULT", "STATUS"}, {}) ELSE {})

(* C18 as stated: a flush invokes a callback subscribed to x only if x is  *)
(* the expression written by a write since the flush before or one of its  *)
(* transitive dependents at the time of the write.                         *)
C18_OnlyWrittenAndDependents ==
  [][rlast'.op \in Flushing =>
       \A x \in Exprs, cb \in Callbacks :
          rlast'.out.delivered[x][cb] > 0 => x \in ReachedAtFlush]_vars

(* C18 as amended: ... or an expression with a CascadingPredicate head     *)
(* written by a setter of the cascade that the write started.              *)
C18_OnlyWrittenDependentsAndConsequences ==
  [][rlast'.op \in Flushing =>
       \A x \in Exprs, cb \in Callbacks :
          rlast'.out.delivered[x][cb] > 0 =>
             \/ x \in ReachedAtFlush
             \/ /\ PredKind[x] = "cascade"
                /\ x \in history.cascaded \cup rlast'.out.written]_vars

\* a flush has invoked a callback and has not invoked the callback of a
\* cached expression that no write had reached
C18_Witness ==
  /\ rlast.op \in Flushing
  /\ \E x \in Exprs, cb \in Callbacks : rlast.out.delivered[x][cb] > 0
  /\ \E y \in Cached(reactor.db) : \E cb \in reactor.subscribers[y] :
        rlast.out.delivered[y][cb] = 0

(* C19 as stated: a call of the function returned by subscribe(e, cb)      *)
(* raises nothing and takes cb, and nothing else, out of the subscribers,  *)
(* also when it is called again (the code violates it).                    *)
C19_UnsubscribeRemovesOnlyThat ==
  [][rlast'.op = "unsubscribe" =>
       /\ ~rlast'.out.thrown
       /\ reactor'.subscribers =
             [reactor.subscribers EXCEPT ![rlast'.e] = @ \ {rlast'.cb}]]_vars

(* C20: the asynchronous function is invoked at most once, and every       *)
(* ensureAsyncRun returns the future that its first invocation returned.   *)
C20_StartedOnceSameFuture ==
  /\ Len(futures) <= 1
  /\ rlast.op = "ensureAsyncRun" =>
        /\ ~rlast.out.thrown
        /\ rlast.out.val = Future(1)
        /\ rlast.out.started = (IF rlast.out.affected = {} THEN 0 ELSE 1)

\* an ensureAsyncRun after the future has resolved
C20_Witness ==
  /\ rlast.op = "ensureAsyncRun"
  /\ rlast.out.started = 0
  /\ futures = <<"resolved">>

-----------------------------------------------------------------------------
(* Properties of the asynchronous calls.                                   *)

\* reactor.getResult([asyncCallStatus, fn, arg])
StatusSeen(rx) == getResult(rx.db, "asyncCallStatus").val

(* C21: the status seen through asyncCallStatus is NotStarted until the    *)
(* first ensureAsyncRun, Executing while the future is unresolved and      *)
(* Complete from its resolution on; no call moves it backwards.            *)
C21_StatusMovesForward ==
  [][/\ StatusSeen(reactor) = Complete => StatusSeen(reactor') = Complete
     /\ StatusSeen(reactor) = Executing =>
           StatusSeen(reactor') \in {Executing, Complete}
     /\ StatusSeen(reactor') = NotStarted <=> futures' = <<>>
     /\ StatusSeen(reactor') = Executing <=> futures' = <<"pending">>
     /\ StatusSeen(reactor') = Complete <=> futures' = <<"resolved">>]_vars

\* an ensureAsyncRun after the resolution has left the status Complete
C21_Witness ==
  /\ rlast.op = "ensureAsyncRun"
  /\ StatusSeen(reactor) = Complete
  /\ reactor.db.exprToCachedResult["asyncCallStatus"] = Complete

(* C22: whenever the status of the call is Complete the result entry holds *)
(* the value the future resolved with, and the flush that follows the two  *)
(* writes has invoked the subscribers of both.                             *)
C22_CompleteHasResult ==
  /\ reactor.db.exprToCachedResult["STATUS"] = Complete =>
        reactor.db.exprToCachedResult["RESULT"] = RetVal
  /\ rlast.op = "resolve" =>
        /\ reactor.db.exprToCachedResult["STATUS"] = Complete
        /\ \A e \in {"STATUS", "RESULT"} : \A cb \in reactor.subscribers[e] :
              rlast.out.delivered[e][cb] >= 1

\* the resolution has invoked a subscriber of the result
C22_Witness ==
  /\ rlast.op = "resolve"
  /\ reactor.db.exprToCachedResult["RESULT"] = RetVal
  /\ \E cb \in reactor.subscribers["RESULT"] : rlast.out.delivered["RESULT"][cb] >= 1


-----------------------------------------------------------------------------
(* Properties of the futures of getResultPromise.                          *)

\* what getResult(e) gives in a store that holds the written values only
Afresh(rx, e) ==
  getResult(NewDatabase([x \in Exprs |-> IF PredKind[x] = "tag"
                                         THEN rx.db.exprToCachedResult[x] ELSE Absent],
                        [x \in Exprs |-> {}], [x \in Exprs |-> {}]), e)

\* e is not ready: its evaluation raises AsyncCallIncomplete
NotReady(rx, e) ==
  Afresh(rx, e).thrown /\ Afresh(rx, e).val = ErrAsyncCallIncomplete

(* C23: the future of a getResultPromise([outer]) called while [outer] is  *)
(* not ready is unsettled, stays unsettled while [outer] is not ready, and *)
(* the step in which the future of the asynchronous call resolves settles  *)
(* it with the value of [outer], with no flush by the calling program.     *)
C23_SettlesWhenComplete ==
  [][\A p \in Promised :
       /\ (rlast'.op = "getResultPromise" /\ rlast'.cb = p /\ NotReady(reactor, "outer"))
             => reactor'.promises[p].state = "pending"
       /\ (reactor.promises[p].state = "pending" /\ NotReady(reactor', "outer"))
             => reactor'.promises[p].state = "pending"
       /\ (reactor.promises[p].state = "pending" /\ rlast'.op = "resolve"
           /\ ~Afresh(reactor', "outer").thrown)
             => reactor'.promises[p] =
                  [state |-> "resolved", val |-> Afresh(reactor', "outer").val]]_vars


(* C24: when the evaluation of [outer] raises an error that is not         *)
(* AsyncCallIncomplete, getResultPromise([outer]) returns a future that is *)
(* rejected with that error.                                               *)
C24_RejectsWithTheError ==
  [][\A p \in Promised :
       (/\ rlast'.op = "getResultPromise" /\ rlast'.cb = p
        /\ Afresh(reactor, "outer").thrown /\ ~NotReady(reactor, "outer"))
         => reactor'.promises[p] =
              [state |-> "rejected", val |-> Afresh(reactor, "outer").val]]_vars


(* C25: once the future of a getResultPromise is settled, the callback     *)
(* that the call subscribed to the readiness of the expression is no       *)
(* longer subscribed, and no call invokes it.                              *)
C25_SettledIsUnsubscribed ==
  [][\A p \in Promised :
       reactor'.promises[p].state \in {"resolved", "rejected"}
         => /\ p \notin reactor'.subscribers["ready"]
            /\ (reactor.promises[p].state \in {"resolved", "rejected"}
                  => rlast'.out.delivered["ready"][p] = 0)]_vars


(* C26: getResult([resultIsReady, outer]) returns false exactly when the   *)
(* evaluation of [outer] raises AsyncCallIncomplete and true otherwise; it *)
(* returns true once the asynchronous call is Complete.                    *)
C26_ReadyIffNotIncomplete ==
  [][(rlast'.op = "getResult" /\ rlast'.e = "ready")
       => /\ ~rlast'.out.thrown
          /\ rlast'.out.val = (IF NotReady(reactor, "outer") THEN False ELSE True)
          /\ reactor.db.exprToCachedResult["STATUS"] = Complete
               => rlast'.out.val = True]_vars


-----------------------------------------------------------------------------
(* Properties of the errors raised inside the Reactor.                     *)

(* C27: subscribe(e, cb) raises nothing, also when the evaluation of e     *)
(* raises: it registers cb and returns the unsubscribe function.           *)
C27_SubscribeSwallowsErrors ==
  [][rlast'.op = "subscribe"
       => /\ ~rlast'.out.thrown
          /\ rlast'.cb \in reactor'.subscribers[rlast'.e]
          /\ <<rlast'.e, rlast'.cb>> \in handles']_vars


(* C28: when a callback throws during flushNotifications, the store is     *)
(* unchanged, every callback subscribed to a pending expression has been   *)
(* invoked all the same, and a flush that follows directly does not invoke *)
(* again the callbacks that this one invoked.                              *)
C28_ThrowingCallbackIsContained ==
  [][/\ (rlast'.op = "flush" /\ rlast'.out.thrown)
          => /\ reactor'.db = reactor.db
             /\ \A e \in Exprs : \A cb \in reactor.subscribers[e] :
                  Entries(reactor.pending, e) > 0 => rlast'.out.delivered[e][cb] > 0
     /\ (rlast.op = "flush" /\ rlast.out.thrown /\ rlast'.op = "flush")
          => \A e \in Exprs : \A cb \in Callbacks :
               rlast.out.delivered[e][cb] > 0 => rlast'.out.delivered[e][cb] = 0]_vars


-----------------------------------------------------------------------------
(* Properties of the expressions that wait for an asynchronous call.       *)

(* C29: the predicate of [inner], which is spyAsyncEffectResult of the     *)
(* asynchronous call, returns the stored result when the status of the     *)
(* call is Complete and raises AsyncCallIncomplete in every other status;  *)
(* once the call is Complete, getResult([inner]) returns its result.       *)
C29_RaisesUntilComplete ==
  [][(rlast'.op = "getResult" /\ rlast'.e = "inner")
       => /\ (rlast'.out.calls["inner"] > 0
              /\ reactor.db.exprToCachedResult["STATUS"] # Complete)
                => rlast'.out.thrown /\ rlast'.out.val = ErrAsyncCallIncomplete
          /\ reactor.db.exprToCachedResult["STATUS"] = Complete
                => /\ ~rlast'.out.thrown
                   /\ rlast'.out.val = reactor.db.exprToCachedResult["RESULT"]
                   /\ rlast'.out.val = RetVal]_vars

\* after the call completed, the predicate of [inner] ran and returned the
\* result
C29_Witness ==
  /\ rlast.op = "getResult" /\ rlast.e = "inner"
  /\ rlast.out.calls["inner"] = 1 /\ ~rlast.out.thrown /\ rlast.out.val = RetVal
  /\ futures = <<"resolved">>


(* C30: a getEnsuredResultPromise([outer]) called while [outer] is not     *)
(* ready leaves the asynchronous call started, its function invoked once   *)
(* in all, and the future unsettled; the step in which the call completes  *)
(* resolves the future with the value of [outer].                          *)
C30_EnsuredStartsAndResolves ==
  [][\A p \in Promised :
       /\ (rlast'.op = "getEnsuredResultPromise" /\ rlast'.cb = p
           /\ NotReady(reactor, "outer"))
             => /\ StatusSeen(reactor') = Executing
                /\ Len(futures') = 1
                /\ rlast'.out.started = 1 - Len(futures)
                /\ reactor'.promises[p].state = "pending"
       /\ (rlast.op = "getEnsuredResultPromise" /\ rlast.cb = p
           /\ rlast'.op = "resolve" /\ ~Afresh(reactor', "outer").thrown)
             => reactor'.promises[p] =
                  [state |-> "resolved", val |-> Afresh(reactor', "outer").val]]_vars


-----------------------------------------------------------------------------
(* Properties of the writes of the Database.                               *)

\* with(e, f(v)) on the receiver, g being the outcome of its getResult(e)
\* and v the value of g
WithModifierApplied(g, e) == withGetAffectedRels(g.m.db, e, Modifier(g.val))

(* C31: withModified(e, f) returns a Database in which getResult(e) is     *)
(* f(v), v being what getResult(e) returns on the receiver; its affected   *)
(* set is that of with(e, f(v)), and of the other expressions it removes   *)
(* from the cache exactly those of this set that it does not write.        *)
C31_WithModifiedIsWithOfModified ==
  [][(last'.op = "withModified" /\ ~last'.thrown)
       => /\ getResult(heap'[ref'[last'.to]], last'.e).val =
               Modifier(getResult(heap[ref[last'.slot]], last'.e).val)
          /\ ~getResult(heap'[ref'[last'.to]], last'.e).thrown
          /\ last'.affected =
               WithModifierApplied(getResult(heap[ref[last'.slot]], last'.e),
                                   last'.e).affected
          /\ \A x \in Exprs \ ({last'.e} \cup last'.written) :
               heap'[ref'[last'.to]].exprToCachedResult[x] =
                 IF x \in last'.affected
                 THEN Absent ELSE heap'[ref[last'.slot]].exprToCachedResult[x]]_vars

\* a withModified of an expression that had no value and has a cached
\* dependent, which is in the affected set
C31_Witness ==
  /\ last.op = "withModified" /\ ~last.thrown /\ ~last.wasCached
  /\ last.affected \ {last.e} # {}
  /\ At(last.to).exprToCachedResult[last.e] = Modifier(Undef)


-----------------------------------------------------------------------------
(* Properties of the dependency edges and of the evaluator state.          *)

\* the expressions that the predicate of d spies when it runs to its end in
\* the Database db ([deriv, id, v] is keyed by the value of [base2])
Spied(db, d) ==
  {Target(Body[d][i], <<IF db.exprToCachedResult["base2"] = Absent THEN Undef
                         ELSE db.exprToCachedResult["base2"]>>) :
     i \in {j \in 1..Len(Body[d]) : Body[d][j].op = "spy"}}

(* C32: when a getResult or spyResult of the calling program has run the   *)
(* predicate of d to its end, every expression x that d spied is in        *)
(* contributors[d] and d is in dependents[x]; a spyResult(e) of the        *)
(* calling program, made while no evaluation is running, makes no          *)
(* expression a dependent of e that neither spies e nor was written by     *)
(* setDerivative in the call.                                              *)
C32_SpyRecordsEdgeOfInnermost ==
  [][(last'.op \in {"getResult", "spyResult"})
       => /\ \A d \in Mine :
               (/\ last'.calls[d] > 0
                /\ heap'[ref[last'.slot]].exprToCachedResult[d] # Absent
                /\ PredKind[d] = "function")
                 => \A x \in Spied(heap'[ref[last'.slot]], d) :
                      /\ x \in heap'[ref[last'.slot]].exprToContributorExprs[d]
                      /\ d \in heap'[ref[last'.slot]].exprToDependentExprs[x]
          /\ last'.op = "spyResult"
               => \A d \in heap'[ref[last'.slot]].exprToDependentExprs[last'.e]
                           \ heap[ref[last'.slot]].exprToDependentExprs[last'.e] :
                    \/ last'.e \in Spied(heap'[ref[last'.slot]], d)
                    \/ d \in last'.written]_vars


(* C33: when a getResult of the calling program has finished, by returning *)
(* or by raising, currentlyComputingExprs of the Database is empty and its *)
(* currentDeepestComputingExpr is null.                                    *)
C33_EvaluatorStateIsScoped ==
  [][last'.op = "getResult"
       => /\ heap'[ref[last'.slot]].currentlyComputingExprs = {}
          /\ heap'[ref[last'.slot]].currentDeepestComputingExpr = NoExpr]_vars


(* C34: the affected set that withGetAffectedRels(e, v) returns for an e   *)
(* whose head is not a CascadingPredicate is e together with exactly the   *)
(* expressions reachable from e through dependents edges in the receiver,  *)
(* also when these edges form cycles.                                      *)
C34_AffectedIsDependentsClosure ==
  [][(last'.op = "with" /\ ~last'.thrown /\ PredKind[last'.e] # "cascade")
       => last'.affected = DependentsFrom(heap[ref[last'.slot]], {last'.e}, {})]_vars

\* a write of [base2] that affects [creator] and the derivative it wrote,
\* which are dependents of each other
C34_Witness ==
  /\ last.op = "with" /\ ~last.thrown
  /\ last.e = "base2" /\ {"creator", "d1"} \subseteq last.affected


(* C35: a setDerivative executed during an evaluation removes no           *)
(* contributor edge of an expression whose evaluation is in progress: when *)
(* a call in which setDerivative ran has run the predicate of c to its end *)
(* and c is cached, contributors[c] holds every expression that c spied.   *)
C35_SetDerivativeKeepsEdges ==
  [][(last'.op \in {"getResult", "spyResult"} /\ last'.written # {} /\ last'.wasIdle)
       => \A c \in Mine :
            (/\ last'.calls[c] > 0
             /\ heap'[ref[last'.slot]].exprToCachedResult[c] # Absent
             /\ PredKind[c] = "function")
              => Spied(heap'[ref[last'.slot]], c)
                   \subseteq heap'[ref[last'.slot]].exprToContributorExprs[c]]_vars


-----------------------------------------------------------------------------
(* Properties of the derivative expressions.                               *)

\* what the predicate of c writes for d with setDerivative when it runs on db
WrittenFor(db, c, d) ==
  LET seen == <<IF db.exprToCachedResult["base2"] = Absent THEN Undef
                ELSE db.exprToCachedResult["base2"]>>
      at == {i \in 1..Len(Body[c]) :
               Body[c][i].op = "setDerivative" /\ Target(Body[c][i], seen) = d}
  IN IF at = {} THEN Undef ELSE Body[c][CHOOSE i \in at : TRUE].k + seen[1]

(* C36: getResult of an uncached tag-headed expression d that holds a      *)
(* DerivativeId whose creating expression is not cached runs the creating  *)
(* expression once and returns what it wrote for d, undefined if it wrote  *)
(* nothing for d; when the creating expression is cached no predicate runs *)
(* and the result is undefined.                                            *)
C36_UncachedDerivativeRunsCreator ==
  [][(/\ last'.op = "getResult"
      /\ PredKind[last'.e] = "tag"
      /\ DerivativeCreators[last'.e] # <<>>
      /\ ~last'.wasCached)
       => IF heap[ref[last'.slot]].exprToCachedResult[DerivativeCreators[last'.e][1]] = Absent
          THEN /\ last'.calls[DerivativeCreators[last'.e][1]] = 1
               /\ ~last'.thrown
               /\ last'.val = WrittenFor(heap[ref[last'.slot]],
                                         DerivativeCreators[last'.e][1], last'.e)
          ELSE /\ last'.calls = NoCalls
               /\ ~last'.thrown
               /\ last'.val = Undef
               /\ heap' = heap]_vars

\* getResult of the derivative d1 ran its creating expression and returned
\* the value the creating expression wrote
C36_Witness ==
  /\ last.op = "getResult"
  /\ last.e = "d1"
  /\ ~last.wasCached
  /\ last.calls["creator"] = 1
  /\ last.val = 71


-----------------------------------------------------------------------------
(* Properties of the cascades.                                             *)

\* what the setter of the cascade expression p writes when p is set to v
SetterWrites(p, v) ==
  {[x |-> Target(Body[p][i], <<v>>), val |-> Body[p][i].k + v] :
     i \in {j \in 1..Len(Body[p]) : Body[p][j].op = "setDerivative"}}

(* C37: after a write of a cascade-headed expression p, every expression   *)
(* the setter of p (or the setter of a cascade-headed consequence) writes  *)
(* is cached with the written value and is a dependent of the cascade      *)
(* expression whose setter wrote it, and the consequences of the earlier   *)
(* write of p that the new setter run does not write are not cached.       *)
C37_ConsequencesFollowTheWrite ==
  [][(/\ last'.op \in {"with", "withModified"}
      /\ ~last'.thrown
      /\ PredKind[last'.e] = "cascade")
       => /\ \A p \in {q \in {last'.e} \cup last'.written : PredKind[q] = "cascade"} :
               \A w \in SetterWrites(p, heap'[ref'[last'.to]].exprToCachedResult[p]) :
                  /\ w.x \in last'.written
                  /\ heap'[ref'[last'.to]].exprToCachedResult[w.x] = w.val
                  /\ w.x \in heap'[ref'[last'.to]].exprToDependentExprs[p]
                  /\ p \in heap'[ref'[last'.to]].exprToContributorExprs[w.x]
          /\ \A x \in DependentsFrom(heap[ref[last'.slot]], {last'.e}, {}) \ {last'.e} :
               x \notin last'.written
                 => heap'[ref'[last'.to]].exprToCachedResult[x] = Absent]_vars

\* a second write of PARENT wrote CHILD2 and GRAND and removed the CHILD1
\* that the first write had set
C37_Witness ==
  /\ last.op = "with"
  /\ last.e = "PARENT"
  /\ ~last.thrown
  /\ last.written = {"CHILD2", "GRAND"}
  /\ "CHILD1" \in last.affected
  /\ At(last.to).exprToCachedResult["CHILD1"] = Absent
  /\ At(last.to).exprToCachedResult["GRAND"] # Absent


-----------------------------------------------------------------------------
(* Properties of the writes of the Reactor.                                *)

(* C38 as stated: after Reactor.set(e, v) the expression e and every       *)
(* expression whose cache entry the call removed or wrote, consequences of *)
(* a cascade and their invalidated dependents included, is in the pending  *)
(* set of the Reactor (the code violates it).                              *)
C38_EveryChangeIsPending ==
  [][(rlast'.op = "set" /\ ~rlast'.out.thrown)
       => \A x \in Exprs :
            (\/ x = rlast'.e
             \/ reactor'.db.exprToCachedResult[x] # reactor.db.exprToCachedResult[x])
              => Entries(reactor'.pending, x) > 0]_vars


(* C39: a Reactor.set that raises because a cascading setter throws leaves *)
(* the Database of the Reactor, its subscriber table and its pending set   *)
(* exactly as they were before the call.                                   *)
C39_RaisingSetChangesNothing ==
  [][(rlast'.op = "set" /\ rlast'.out.thrown)
       => /\ reactor'.db = reactor.db
          /\ reactor'.subscribers = reactor.subscribers
          /\ reactor'.pending = reactor.pending]_vars

\* a set has raised the error of the setter on a Reactor that holds an
\* earlier write with its consequence, a pending expression and a subscriber
C39_Witness ==
  /\ rlast.op = "set"
  /\ rlast.out.thrown
  /\ rlast.out.val = ErrBoom
  /\ reactor.db.exprToCachedResult["GUARD"] = 1
  /\ reactor.db.exprToCachedResult["NOTE"] = 9
  /\ Entries(reactor.pending, "NOTE") + Entries(reactor.pending, "GUARD") > 0
  /\ reactor.subscribers["NOTE"] # {}


-----------------------------------------------------------------------------
(* Termination of an evaluation.                                           *)

(* C40: every getResult returns or raises after a bounded number of        *)
(* predicate runs, also when predicates spy themselves or each other in a  *)
(* cycle and when a derivative expression is read while its creating       *)
(* expression is being computed: one call runs the predicate of an         *)
(* expression at most once, and a request for an expression that is being  *)
(* computed runs no predicate.                                             *)
C40_EvaluationIsBounded ==
  last.op = "getResult" =>
     /\ \A e \in Exprs : last.calls[e] <= 1
     /\ \A q \in last.reentrant : q.invoked = 0
     /\ TotalCalls(last.calls) <= Cardinality({e \in Mine : PredKind[e] = "function"})

\* a getResult of ping has run ping and pong and pong has asked for ping
C40_Witness ==
  /\ last.op = "getResult"
  /\ last.e = "ping"
  /\ last.calls["ping"] = 1
  /\ last.calls["pong"] = 1
  /\ \E q \in last.reentrant : q.e = "ping"

=============================================================================
